---- MODULE Spec2Model ----
\* Model of Python/traffic_generator.py: the toll-transaction generator.
\* Python strings are sequences of one-character strings; a value a function
\* returns is a record, and an exception is the control state "aborted" with
\* the exception's name in `error`.
EXTENDS Integers, Sequences, FiniteSets, TLC

\* ---------------------------------------------------------------- bounds
\* Largest average_daily_volume and day count the runs are started with.
MaxVolume == 10
MaxDays == 1
\* Largest batch_size the runs are started with.
MaxBatch == 3
\* Cap on total_records of a run of SpecBatch (few draws per record).
MaxRecords == 10
\* Cap on total_records of a run of Spec (every draw per record).
MaxRecordsFull == 1
\* Longest format string random_plate_number is given in SpecPlate.
MaxFormatLen == 3
\* Transaction ids generate_vehicle_images is given in SpecImages.
MaxTid == 2

\* The letter and digit draws the runs of the generation loop take (a run of
\* SpecPlate takes every draw).
LoopLetters == {"K"}
LoopDigits == {"7"}

VARIABLES
    pc,                    \* "loop" | "done" | "aborted" for the run; "call" | "return" for one function
    error,                 \* name of the exception that ended the run, or None
    average_daily_volume,  \* argument of generate_traffic_data
    total_days,            \* (end_date - start_date).days
    batch_size,            \* argument of generate_traffic_data
    USE_AZURE_SERVICE_BUS, \* the sink flag
    iter,                  \* iterations of `for _ in range(total_records)` done
    batch,                 \* local `batch`
    record_count,          \* local `record_count`
    files,                 \* the batch files written to TRXDATA_DIR, in order
    queue,                 \* the messages sent to the Service Bus queue, in order
    flushes,               \* the batches handed to the active sink, in order
    assembled,             \* history: every record built at line 213, in order
    printed,               \* the total printed at line 258, or None
    args,                  \* arguments of the function call under study
    ret                    \* its return value

vars == <<pc, error, average_daily_volume, total_days, batch_size,
          USE_AZURE_SERVICE_BUS, iter, batch, record_count, files, queue,
          flushes, assembled, printed, args, ret>>

runVars == <<error, average_daily_volume, total_days, batch_size,
             USE_AZURE_SERVICE_BUS, iter, batch, record_count, files, queue,
             flushes, assembled, printed>>

None == "None"

\* ------------------------------------------------------------- constants
PLATE_STATES ==
    [s \in {"Illinois", "Pennsylvania", "New Jersey", "New York", "Maryland", "Ohio"} |->
        CASE s = "Illinois" ->
               [full_name |-> "Illinois", abbreviation |-> "IL",
                format |-> <<"A", "#", "#", "#", "#", "#", "#">>,
                plate_types |-> <<"Passenger", "Commercial", "Firefighter", "Doctor">>]
          [] s = "Pennsylvania" ->
               [full_name |-> "Pennsylvania", abbreviation |-> "PA",
                format |-> <<"A", "A", "A", "#", "#", "#", "#">>]
          [] s = "New Jersey" ->
               [full_name |-> "New Jersey", abbreviation |-> "NJ",
                format |-> <<"A", "#", "#", "A", "A", "A">>]
          [] s = "New York" ->
               [full_name |-> "New York", abbreviation |-> "NY",
                format |-> <<"A", "A", "A", "#", "#", "#", "#">>]
          [] s = "Maryland" ->
               [full_name |-> "Maryland", abbreviation |-> "MD",
                format |-> <<"A", "A", "A", "#", "#", "#">>]
          [] OTHER ->
               [full_name |-> "Ohio", abbreviation |-> "OH",
                format |-> <<"A", "A", "A", "#", "#", "#", "#">>]]

\* The populations of the two random.choice calls of random_plate_number.
LETTERS == {"A", "B", "C", "D", "E", "F", "G", "H", "I", "J", "K", "L", "M",
            "N", "O", "P", "Q", "R", "S", "T", "U", "V", "W", "X", "Y", "Z"}
DIGITS == {"0", "1", "2", "3", "4", "5", "6", "7", "8", "9"}

\* The population of the effect draw in generate_vehicle_images.
EFFECT_CHOICES == {"clear", "dirty", "blurry", "snow", "rain"}
\* The effect names apply_effects has a branch for.
ENGINE_BRANCHES == {"blurry", "dirty", "rainy", "snowy"}

\* --------------------------------------------------------- pure functions
\* dict.get(key, default) on a profile.
Get(d, key, default) == IF key \in DOMAIN d THEN d[key] ELSE default

\* The values random.choice(seq) can return; none when seq is empty
\* (random.choice then raises IndexError).
RandomChoice(seq) == {seq[k] : k \in DOMAIN seq}

\* random_plate_number: the plates it can return for format_string when the
\* letter draws fall in `letters` and the digit draws in `digits`.
RECURSIVE random_plate_number(_, _, _)
random_plate_number(format_string, letters, digits) ==
    IF format_string = <<>> THEN {<<>>}
    ELSE LET char == format_string[Len(format_string)]
             init == random_plate_number(
                        SubSeq(format_string, 1, Len(format_string) - 1),
                        letters, digits)
         IN  IF char = "A" THEN {p \o <<c>> : p \in init, c \in letters}
             ELSE IF char = "#" THEN {p \o <<c>> : p \in init, c \in digits}
             ELSE init

\* Mutant of PlateTypeDraws: the draw is made for every profile, not for
\* Illinois only.
PlateTypeDraws_EveryProfile(plate_state_info) ==
    RandomChoice(Get(plate_state_info, "plate_types", <<>>))

\* The plate type drawn at lines 198-200: None unless the profile is
\* Illinois; no outcome at all when random.choice is given an empty list.
PlateTypeDraws(plate_state_info) ==
    IF plate_state_info.abbreviation = "IL"
    THEN RandomChoice(Get(plate_state_info, "plate_types", <<>>))
    ELSE {None}

\* apply_effects: the image converted to grayscale, with the effect of the
\* matching branch applied; a name with no branch leaves the pixels alone.
\* The function has no raise statement.
apply_effects(image, effect) ==
    [raised |-> None,
     value |-> [image EXCEPT !.mode = "L",
                             !.effect = IF effect \in ENGINE_BRANCHES
                                        THEN effect ELSE "none"]]

\* overlay_plate_info: state name, plate number and (if truthy) plate type
\* drawn onto the image.
overlay_plate_info(image, plate_number, plate_state, plate_type) ==
    [image EXCEPT !.overlay =
        <<plate_state.full_name, plate_number>>
        \o (IF plate_type # None THEN <<plate_type>> ELSE <<>>)]

\* Image.open(vehicle.jpg).convert("RGB")
Template == [mode |-> "RGB", overlay |-> <<>>, effect |-> "none"]

\* os.path.join(OUTPUT_IMAGES_DIR, f"{transaction_id}_vehicle_{i}.jpg")
VehiclePath(transaction_id, i) == <<transaction_id, "vehicle", i>>
\* os.path.join(OUTPUT_IMAGES_DIR, f"{transaction_id}_plateroi.jpg")
RoiPath(transaction_id) == <<transaction_id, "plateroi", 0>>

\* The inner loop `for i in range(1, max_vehicle_images)`: one save and one
\* descriptor per i.
InnerLoop(transaction_id, max_vehicle_images) ==
    [i \in 1..(max_vehicle_images - 1) |->
        [image_file |-> VehiclePath(transaction_id, i), image_type |-> "1"]]

\* The outer loop `for i in range(1, stop)`, stop = random.randint(2, 4):
\* each pass composes the image again and runs the inner loop.
RECURSIVE OuterLoop(_, _, _)
OuterLoop(transaction_id, max_vehicle_images, passes) ==
    IF passes <= 0 THEN <<>>
    ELSE OuterLoop(transaction_id, max_vehicle_images, passes - 1)
         \o InnerLoop(transaction_id, max_vehicle_images)

\* generate_vehicle_images, given its two draws (the effect and the stop of
\* the outer range): the descriptors returned, the image of the last pass and
\* the paths saved, in order.
generate_vehicle_images(transaction_id, plate_number, plate_state, plate_type, max_vehicle_images, effect, stop) ==
    LET img == apply_effects(
                   overlay_plate_info(Template, plate_number, plate_state, plate_type),
                   effect)
        overviews == OuterLoop(transaction_id, max_vehicle_images, stop - 1)
        roi == [image_file |-> RoiPath(transaction_id), image_type |-> "2"]
    IN  [raised |-> img.raised,
         img |-> img.value,
         value |-> IF img.raised = None THEN overviews \o <<roi>> ELSE <<>>,
         saved |-> IF img.raised = None
                   THEN [k \in 1..(Len(overviews) + 1) |->
                            (overviews \o <<roi>>)[k].image_file]
                   ELSE <<>>]

\* ------------------------------------------------------ generation loop
total_records == average_daily_volume * total_days

\* The populations of random.randint(1, 3) at line 202 and of
\* random.randint(2, 4) at line 144.
IMAGE_COUNTS == 1..3
RANGE_STOPS == 2..4

\* Mutant of SinkWrite: the file branch writes every batch to the same file.
SinkWrite_SameFile(b) ==
    /\ flushes' = Append(flushes, b)
    /\ IF USE_AZURE_SERVICE_BUS
       THEN /\ queue' = queue \o [k \in 1..Len(b) |-> [body |-> b[k]]]
            /\ UNCHANGED files
       ELSE /\ files' = <<[name |-> 1, content |-> b]>>
            /\ UNCHANGED queue

\* One sink write of `b`: send_to_azure_service_bus sends one message per
\* record, the file branch dumps the whole batch into one new file.
SinkWrite(b) ==
    /\ flushes' = Append(flushes, b)
    /\ IF USE_AZURE_SERVICE_BUS
       THEN /\ queue' = queue \o [k \in 1..Len(b) |-> [body |-> b[k]]]
            /\ UNCHANGED files
       ELSE /\ files' = Append(files, [name |-> Len(files) + 1, content |-> b])
            /\ UNCHANGED queue

Abort(exception) ==
    /\ pc' = "aborted"
    /\ error' = exception
    /\ UNCHANGED <<average_daily_volume, total_days, batch_size,
                   USE_AZURE_SERVICE_BUS, iter, batch, record_count, files,
                   queue, flushes, assembled, printed, args, ret>>

\* Mutant of BatchFull: the batch is sent one record late.
BatchFull_Late(b) == Len(b) > batch_size

\* Line 238: the batch is sent or saved when its length equals batch_size.
BatchFull(b) == Len(b) = batch_size

\* One pass of `for _ in range(total_records)` (lines 192-246) that builds
\* its record, for the draws given: the profile, the plate number, the image
\* count, the effect and the stop of the overview range. uuid.uuid4() is a
\* fresh id: the number of the pass.
Iterate(state, plate_number, image_count, effect, stop) ==
    /\ pc = "loop"
    /\ iter < total_records
    /\ LET transaction_id == iter + 1
           plate_state_info == PLATE_STATES[state]
       IN  IF PlateTypeDraws(plate_state_info) = {}
           THEN Abort("IndexError")
           ELSE \E plate_types \in PlateTypeDraws(plate_state_info) :
                LET made == generate_vehicle_images(
                                transaction_id, plate_number, plate_state_info,
                                plate_types, image_count, effect, stop)
                    record == [LaneTransId |-> transaction_id,
                               PlateNumber |-> plate_number,
                               PlateState |-> plate_state_info.abbreviation,
                               vehicle_images |-> made.value,
                               plate_types |-> plate_types]
                    appended == Append(batch, record)
                IN  IF made.raised # None
                    THEN Abort(made.raised)
                    ELSE /\ iter' = iter + 1
                         /\ record_count' = record_count + 1
                         /\ assembled' = Append(assembled, record)
                         /\ IF BatchFull(appended)
                            THEN /\ SinkWrite(appended)
                                 /\ batch' = <<>>
                            ELSE /\ batch' = appended
                                 /\ UNCHANGED <<files, queue, flushes>>
                         /\ UNCHANGED <<pc, error, average_daily_volume,
                                        total_days, batch_size,
                                        USE_AZURE_SERVICE_BUS, printed, args, ret>>

\* Mutant of IterateFail: the record is counted before its images are made.
IterateFail_Counted ==
    /\ pc = "loop"
    /\ iter < total_records
    /\ pc' = "aborted"
    /\ error' = "FileNotFoundError"
    /\ record_count' = record_count + 1
    /\ UNCHANGED <<average_daily_volume, total_days, batch_size,
                   USE_AZURE_SERVICE_BUS, iter, batch, files, queue, flushes,
                   assembled, printed, args, ret>>

\* A pass in which Image.open (line 150) or ImageFont.truetype (line 101)
\* raises: the exception leaves generate_traffic_data before line 213.
IterateFail ==
    /\ pc = "loop"
    /\ iter < total_records
    /\ Abort("FileNotFoundError")

\* Mutant of Drain: the records left in the batch are not flushed.
Drain_NoRemainder ==
    /\ pc = "loop"
    /\ iter = total_records
    /\ printed' = record_count
    /\ pc' = "done"
    /\ UNCHANGED <<error, average_daily_volume, total_days, batch_size,
                   USE_AZURE_SERVICE_BUS, iter, batch, record_count, files,
                   queue, flushes, assembled, args, ret>>

\* Lines 248-258: the remaining records, then the total.
Drain ==
    /\ pc = "loop"
    /\ iter = total_records
    /\ IF batch # <<>>
       THEN SinkWrite(batch)
       ELSE UNCHANGED <<files, queue, flushes>>
    /\ printed' = record_count
    /\ pc' = "done"
    /\ UNCHANGED <<error, average_daily_volume, total_days, batch_size,
                   USE_AZURE_SERVICE_BUS, iter, batch, record_count,
                   assembled, args, ret>>

\* The state after lines 187-190, for a run of at most `cap` records.
InitRun(cap) ==
    /\ pc = "loop"
    /\ error = None
    /\ average_daily_volume \in 0..MaxVolume
    /\ total_days \in 0..MaxDays
    /\ average_daily_volume * total_days <= cap
    /\ batch_size \in 1..MaxBatch
    /\ USE_AZURE_SERVICE_BUS \in BOOLEAN
    /\ iter = 0
    /\ batch = <<>>
    /\ record_count = 0
    /\ files = <<>>
    /\ queue = <<>>
    /\ flushes = <<>>
    /\ assembled = <<>>
    /\ printed = None
    /\ args = None
    /\ ret = None

Init == InitRun(MaxRecordsFull)

Next ==
    \/ \E state \in DOMAIN PLATE_STATES, image_count \in IMAGE_COUNTS,
          effect \in EFFECT_CHOICES, stop \in RANGE_STOPS :
          \E plate_number \in random_plate_number(PLATE_STATES[state].format,
                                                  LoopLetters, LoopDigits) :
             Iterate(state, plate_number, image_count, effect, stop)
    \/ IterateFail
    \/ Drain

\* Every draw of every record, runs of at most MaxRecordsFull records.
Spec == Init /\ [][Next]_vars

\* The draws the long runs take for each record: <<profile, image count,
\* effect, stop>>.
BatchDraws == {<<"Pennsylvania", 1, "clear", 2>>, <<"New Jersey", 3, "snow", 4>>}

InitBatch == InitRun(MaxRecords)

NextBatch ==
    \/ \E d \in BatchDraws :
          \E plate_number \in random_plate_number(PLATE_STATES[d[1]].format,
                                                  LoopLetters, LoopDigits) :
             Iterate(d[1], plate_number, d[2], d[3], d[4])
    \/ IterateFail
    \/ Drain

\* Runs of at most MaxRecords records, each record from one of BatchDraws.
SpecBatch == InitBatch /\ [][NextBatch]_vars

\* ------------------------------------------- one call of a pure function
Idle ==
    /\ error = None
    /\ average_daily_volume = 0
    /\ total_days = 0
    /\ batch_size = 1
    /\ USE_AZURE_SERVICE_BUS = FALSE
    /\ iter = 0
    /\ batch = <<>>
    /\ record_count = 0
    /\ files = <<>>
    /\ queue = <<>>
    /\ flushes = <<>>
    /\ assembled = <<>>
    /\ printed = None

\* A call of generate_vehicle_images as line 204 makes it.
InitImages ==
    /\ Idle
    /\ pc = "call"
    /\ args \in [transaction_id : 1..MaxTid,
                 state : DOMAIN PLATE_STATES,
                 max_vehicle_images : IMAGE_COUNTS,
                 effect : EFFECT_CHOICES,
                 stop : RANGE_STOPS]
    /\ ret = None

CallImages ==
    /\ pc = "call"
    /\ \E plate_number \in random_plate_number(PLATE_STATES[args.state].format,
                                               LoopLetters, LoopDigits),
          plate_type \in PlateTypeDraws(PLATE_STATES[args.state]) :
          ret' = generate_vehicle_images(
                     args.transaction_id, plate_number, PLATE_STATES[args.state],
                     plate_type, args.max_vehicle_images, args.effect, args.stop)
    /\ pc' = "return"
    /\ UNCHANGED <<runVars, args>>

SpecImages == InitImages /\ [][CallImages]_vars

\* The format strings of at most n characters over the two placeholders and
\* one literal.
RECURSIVE Formats(_)
Formats(n) ==
    IF n = 0 THEN {<<>>}
    ELSE Formats(n - 1)
         \cup {f \o <<c>> : f \in {g \in Formats(n - 1) : Len(g) = n - 1},
                            c \in {"A", "#", "-"}}

InitPlate ==
    /\ Idle
    /\ pc = "call"
    /\ args \in [format_string : Formats(MaxFormatLen)]
    /\ ret = None

CallPlate ==
    /\ pc = "call"
    /\ ret' \in random_plate_number(args.format_string, LETTERS, DIGITS)
    /\ pc' = "return"
    /\ UNCHANGED <<runVars, args>>

SpecPlate == InitPlate /\ [][CallPlate]_vars

\* ------------------------------------------------------------- properties
RECURSIVE Concat(_)
Concat(ss) == IF ss = <<>> THEN <<>> ELSE Concat(SubSeq(ss, 1, Len(ss) - 1)) \o ss[Len(ss)]

CeilDiv(a, b) == (a + b - 1) \div b

\* The records the run holds: the current batch and every flushed batch.
HeldRecords == {batch[k] : k \in DOMAIN batch}
               \cup {Concat(flushes)[k] : k \in DOMAIN Concat(flushes)}

CountType(images, t) == Cardinality({k \in DOMAIN images : images[k].image_type = t})

ProfileOf(abbreviation) ==
    PLATE_STATES[CHOOSE s \in DOMAIN PLATE_STATES :
                    PLATE_STATES[s].abbreviation = abbreviation]

\* C1: when a run of generate_traffic_data ends, it has flushed
\* ceil(total_records / batch_size) times (no flush when total_records = 0),
\* every flush but the last carries batch_size records and the last carries
\* the remainder (a full batch when the remainder is 0); with the file sink
\* there is one file per flush.
C1_FlushCount ==
    pc = "done" =>
        /\ total_records = average_daily_volume * total_days
        /\ Len(flushes) = IF total_records = 0 THEN 0
                          ELSE CeilDiv(total_records, batch_size)
        /\ \A k \in DOMAIN flushes :
              Len(flushes[k]) =
                 IF k < Len(flushes) \/ total_records % batch_size = 0
                 THEN batch_size
                 ELSE total_records % batch_size
        /\ ~USE_AZURE_SERVICE_BUS => Len(files) = Len(flushes)

\* Scenario C: 10 records in batches of 3 are flushed as 3, 3, 3, 1.
C1_Witness ==
    /\ pc = "done"
    /\ average_daily_volume = 10 /\ total_days = 1 /\ batch_size = 3
    /\ [k \in DOMAIN flushes |-> Len(flushes[k])] = <<3, 3, 3, 1>>

\* C2: the current batch, and every batch as it was flushed, is never longer
\* than batch_size; and a step of the loop that flushes leaves the current
\* batch empty.
C2_BatchBounded ==
    /\ [](/\ Len(batch) <= batch_size
          /\ \A k \in DOMAIN flushes : Len(flushes[k]) <= batch_size)
    /\ [][(Len(flushes') > Len(flushes) /\ pc' = "loop") => batch' = <<>>]_vars

\* A full batch of two or more records was flushed and the loop goes on with
\* an empty batch.
C2_Witness ==
    /\ pc = "loop" /\ batch_size >= 2 /\ iter < total_records
    /\ flushes # <<>> /\ Len(flushes[Len(flushes)]) = batch_size
    /\ batch = <<>>

\* C3: every record held has at least one Overview image (image_type "1")
\* and exactly one RegionOfInterest image (image_type "2").
C3_OverviewAndRoi ==
    \A r \in HeldRecords :
        /\ CountType(r.vehicle_images, "1") >= 1
        /\ CountType(r.vehicle_images, "2") = 1

\* C4: generate_vehicle_images called with max_vehicle_images = n returns
\* exactly n Overview descriptors followed by one RegionOfInterest
\* descriptor.
C4_OverviewCount ==
    pc = "return" =>
        /\ Len(ret.value) = args.max_vehicle_images + 1
        /\ \A k \in 1..args.max_vehicle_images :
              k \in DOMAIN ret.value /\ ret.value[k].image_type = "1"
        /\ ret.value[Len(ret.value)].image_type = "2"

\* C5: the plate random_plate_number returns is as long as the format, with
\* a letter at every "A", a digit at every "#" and the format's own character
\* anywhere else.
C5_PlateMatchesFormat ==
    pc = "return" =>
        /\ Len(ret) = Len(args.format_string)
        /\ \A k \in DOMAIN args.format_string :
              /\ k \in DOMAIN ret
              /\ IF args.format_string[k] = "A" THEN ret[k] \in LETTERS
                 ELSE IF args.format_string[k] = "#" THEN ret[k] \in DIGITS
                 ELSE ret[k] = args.format_string[k]

\* C6: an effect name outside {clear, blurry, dirty, rainy, snowy} that
\* reaches apply_effects makes the call fail with InvalidEffect.
C6_UnknownEffectFails ==
    (pc = "return" /\ args.effect \notin {"clear"} \cup ENGINE_BRANCHES)
        => ret.raised = "InvalidEffect"

\* C7: the plate type of every record held is an entry of its profile's
\* plate_types list when the profile has one and None when it has none, and
\* drawing the plate type never raises.
C7_PlateType ==
    /\ error # "IndexError"
    /\ \A r \in HeldRecords :
          LET profile == ProfileOf(r.PlateState)
          IN  IF "plate_types" \in DOMAIN profile
              THEN r.plate_types \in RandomChoice(profile.plate_types)
              ELSE r.plate_types = None

\* A record of the profile with a plate_types list and a plate type of it.
C7_Witness ==
    \E r \in HeldRecords : r.PlateState = "IL" /\ r.plate_types = "Firefighter"

\* C8: when the run ends, the flushed batches in order are the records in
\* the order they were built, there are average_daily_volume * total_days of
\* them, no transaction id occurs twice, the active sink (and only it) holds
\* them in that order, and the count kept and printed is that number.
C8_DispatchedOnce ==
    pc = "done" =>
        /\ Concat(flushes) = assembled
        /\ Len(assembled) = average_daily_volume * total_days
        /\ \A j, k \in DOMAIN assembled :
              assembled[j].LaneTransId = assembled[k].LaneTransId => j = k
        /\ IF USE_AZURE_SERVICE_BUS
           THEN /\ [k \in DOMAIN queue |-> queue[k].body] = assembled
                /\ files = <<>>
           ELSE /\ Concat([k \in DOMAIN files |-> files[k].content]) = assembled
                /\ queue = <<>>
        /\ record_count = average_daily_volume * total_days
        /\ printed = record_count

\* A finished run of several flushes with a remainder, to the queue.
C8_Witness ==
    /\ pc = "done" /\ USE_AZURE_SERVICE_BUS
    /\ Len(flushes) >= 3 /\ Len(flushes[Len(flushes)]) < batch_size
    /\ Len(queue) = total_records

\* C9: no two descriptors generate_vehicle_images returns carry the same
\* image_file path.
C9_PathsDistinct ==
    pc = "return" =>
        \A j, k \in DOMAIN ret.value :
            ret.value[j].image_file = ret.value[k].image_file => j = k

\* C10: while the loop runs, and after it was aborted, record_count is the
\* number of records flushed plus the length of the current batch (the final
\* flush after the loop leaves the batch as it is); a pass that fails ends
\* the run with the batch, the count and both sinks as they were, and nothing
\* happens after it.
C10_CountAndAbort ==
    /\ [](pc \in {"loop", "aborted"} =>
             record_count = Len(Concat(flushes)) + Len(batch))
    /\ [][/\ pc' = "aborted" =>
               /\ error' # None
               /\ UNCHANGED <<batch, record_count, flushes, files, queue, iter>>
          /\ pc = "aborted" => UNCHANGED vars]_vars

\* A run aborted with flushed batches behind it and records in the batch.
C10_Witness ==
    /\ pc = "aborted" /\ error = "FileNotFoundError"
    /\ flushes # <<>> /\ batch # <<>>
    /\ record_count = Len(Concat(flushes)) + Len(batch)

====
